---- MODULE Spec2Model ----
(***************************************************************************)
(* Scanner session controller of cortexDecoder.                            *)
(*                                                                         *)
(* Two screens are modelled, selected by the variable screen:              *)
(*   "live"     src/App.tsx            continuous live-switch screen       *)
(*   "explicit" src/unnamed/part_000   explicit-lifecycle screen           *)
(*                                                                         *)
(* JavaScript runs one task at a time.  An async function runs             *)
(* synchronously up to its first await; the continuation of an await on    *)
(* an already settled promise is a microtask, which runs before any other  *)
(* task; the continuation of CDLicense.activateLicense runs when the       *)
(* native call settles, after any number of other tasks.                   *)
(*                                                                         *)
(* The native SDK is modelled by the flags its calls set, by the set of    *)
(* attached decode listeners, and by counters of the calls issued.  A      *)
(* native call that throws has no effect.                                  *)
(***************************************************************************)
EXTENDS Naturals, Sequences, FiniteSets

\* ---------------------------------------------------------------- bounds
MaxIntents == 2
MaxFaults == 1

\* ------------------------------------------------------------- constants
NULL == 0
Undefined == "undefined"
Texts == {"", "A", "B"}
ScannerTypes == {"cortex", "vision"}
TeardownOrder == <<"setDecoding(false)", "setVideoCapturing(false)", "stopPreview", "stopCamera">>
CallNames == {"setCustomerId", "activateLicense", "addListener", "startCamera",
              "startPreview", "setVideoCapturing(true)", "setDecoding(true)"}

VARIABLES
  screen,              \* which of the two screens runs
  licenseKey,          \* process.env.EXPO_PUBLIC_CORTEX_LICENSE_KEY: "none", "valid", "invalid"
  device,              \* useCameraDevice('back') found a device
  phase,               \* "init" (rendered, effects not run), "mounted", "unmounted"
  state,               \* ScreenState (explicit screen)
  scannerType,
  lastResult,          \* live screen
  result,              \* explicit screen
  androidPermission,
  hasPermission,
  permPc,              \* position of the permission effect's async function
  subscriptionRef,     \* NULL or the handle returned by CDDecoder.addListener
  licenseActivatedRef,
  run,                 \* number of runs of the effect on [scannerType] (live screen)
  mountedRun,          \* the effect run whose 'mounted' flag is true, 0 if none
  listeners,           \* handles attached to the SDK's onDecodeResult event
  cameraStarted, previewStarted, videoCapturing, decoding,
  pending,             \* startCortex invocations suspended at their await
  calls,               \* number of calls issued, per SDK call of the start path
  ensureCalls,         \* invocations of ensureLicenseActivated
  credReads,           \* invocations that read the credentials
  missingKeyErrors,    \* invocations that threw the missing-key error
  startErrors,         \* startCortex invocations that rejected
  lastStop,            \* teardown calls issued by the latest stop routine call, <<>> before the first
  stopRaised,          \* the stop routine has thrown
  intents,             \* user intents so far that switched the backend or began a session
  sinceStop,           \* start sequences issued since the latest stop routine call
  delivered,           \* the decode event the latest step delivered, NoEvent if none
  faults               \* native calls that threw so far

env == <<screen, licenseKey, device>>
view == <<phase, state, scannerType, lastResult, result>>
perm == <<androidPermission, hasPermission, permPc>>
ctl == <<subscriptionRef, listeners, cameraStarted, previewStarted, videoCapturing,
         decoding, lastStop, stopRaised, faults, sinceStop>>
lic == <<licenseActivatedRef, pending, ensureCalls, credReads, missingKeyErrors>>
vars == <<env, view, perm, ctl, lic, run, mountedRun, calls, startErrors, intents,
          delivered>>

\* ------------------------------------------------------ decode events
\* No decode event was delivered by the latest step.
NoEvent == [src |-> "none", status |-> "none", text |-> ""]

\* A batch of the SDK's onDecodeResult event: the status and barcodeData
\* of results[0]; status "none" when results is absent or empty.
CortexEvent(batch) ==
  [src |-> "cortex", status |-> batch.status, text |-> batch.barcodeData]

\* The codes of an onCodeScanned callback: the value of codes[0].
VisionEvent(codes) ==
  [src |-> "vision",
   status |-> IF Len(codes) > 0 THEN "code" ELSE "nocode",
   text |-> IF Len(codes) > 0 THEN codes[1] ELSE Undefined]

\* ------------------------------------------------- the controller's state
\* The refs and the SDK state the start and stop routines work on, as a
\* record, so that a handler that calls several routines is one action.
\* raised: the routine applied last threw.
Cur ==
  [sub |-> subscriptionRef, lis |-> listeners, cam |-> cameraStarted,
   prev |-> previewStarted, cap |-> videoCapturing, dec |-> decoding,
   lastStop |-> lastStop, stopRaised |-> stopRaised, faults |-> faults,
   sinceStop |-> sinceStop, raised |-> FALSE]

Apply(m) ==
  /\ subscriptionRef' = m.sub
  /\ listeners' = m.lis
  /\ cameraStarted' = m.cam
  /\ previewStarted' = m.prev
  /\ videoCapturing' = m.cap
  /\ decoding' = m.dec
  /\ lastStop' = m.lastStop
  /\ stopRaised' = m.stopRaised
  /\ faults' = m.faults
  /\ sinceStop' = m.sinceStop

\* A fault of one stop routine call: td = k > 0, the k-th teardown call
\* throws; rm, subscription.remove() throws.
StopFaults(m) ==
  {f \in [td : 0..4, rm : BOOLEAN] :
     /\ f.rm => m.sub # NULL
     /\ m.faults + (IF f.td # 0 THEN 1 ELSE 0) + (IF f.rm THEN 1 ELSE 0) <= MaxFaults}

\* A fault of one start sequence: k > 0, the k-th start call throws.
StartFaults(m) ==
  {k \in 0..4 : m.faults + (IF k # 0 THEN 1 ELSE 0) <= MaxFaults}

\* The k-th call of a four-call sequence took effect under fault td.
Done(td, k) == td = 0 \/ td > k

\* The k-th call of a four-call sequence was issued under fault td.
Issued(td, k) == td = 0 \/ td >= k

\* stopAllCameras, src/App.tsx:96-106.  The four teardown calls share one
\* try block: the first that throws skips the rest.  remove() is outside it.
stopAllCameras(m, f) ==
  LET rmThrows == f.rm /\ m.sub # NULL
  IN [m EXCEPT
        !.dec = IF Done(f.td, 1) THEN FALSE ELSE @,
        !.cap = IF Done(f.td, 2) THEN FALSE ELSE @,
        !.prev = IF Done(f.td, 3) THEN FALSE ELSE @,
        !.cam = IF Done(f.td, 4) THEN FALSE ELSE @,
        !.lastStop = SubSeq(TeardownOrder, 1, IF f.td = 0 THEN 4 ELSE f.td),
        !.sinceStop = 0,
        !.lis = IF rmThrows THEN @ ELSE @ \ {m.sub},
        !.sub = IF rmThrows THEN @ ELSE NULL,
        !.raised = rmThrows,
        !.stopRaised = @ \/ rmThrows,
        !.faults = @ + (IF f.td # 0 THEN 1 ELSE 0) + (IF rmThrows THEN 1 ELSE 0)]

\* stopAll, src/unnamed/part_000:104-115: the same routine.
stopAll(m, f) == stopAllCameras(m, f)

\* A resumption that forgets CDDecoder.setDecoding(true).
startCortexResume_NoDecoding(m, id, k) ==
  [m EXCEPT
     !.lis = IF m.sub = NULL THEN @ \cup {id} ELSE @,
     !.sub = IF m.sub = NULL THEN id ELSE @,
     !.cam = IF Done(k, 1) THEN TRUE ELSE @,
     !.prev = IF Done(k, 2) THEN TRUE ELSE @,
     !.cap = IF Done(k, 3) THEN TRUE ELSE @,
     !.raised = k # 0,
     !.sinceStop = @ + 1,
     !.faults = @ + (IF k # 0 THEN 1 ELSE 0)]

\* A resumption that adds a listener without looking at the handle.
startCortexResume_AlwaysAdds(m, id, k) ==
  [m EXCEPT
     !.lis = @ \cup {id},
     !.sub = id,
     !.cam = IF Done(k, 1) THEN TRUE ELSE @,
     !.prev = IF Done(k, 2) THEN TRUE ELSE @,
     !.cap = IF Done(k, 3) THEN TRUE ELSE @,
     !.dec = IF Done(k, 4) THEN TRUE ELSE @,
     !.raised = k # 0,
     !.sinceStop = @ + 1,
     !.faults = @ + (IF k # 0 THEN 1 ELSE 0)]

\* startCortex after its await, src/App.tsx:79-93 and part_000:81-97:
\* add the listener if the handle is null, then the four start calls.
startCortexResume(m, id, k) ==
  [m EXCEPT
     !.lis = IF m.sub = NULL THEN @ \cup {id} ELSE @,
     !.sub = IF m.sub = NULL THEN id ELSE @,
     !.cam = IF Done(k, 1) THEN TRUE ELSE @,
     !.prev = IF Done(k, 2) THEN TRUE ELSE @,
     !.cap = IF Done(k, 3) THEN TRUE ELSE @,
     !.dec = IF Done(k, 4) THEN TRUE ELSE @,
     !.raised = k # 0,
     !.sinceStop = @ + 1,
     !.faults = @ + (IF k # 0 THEN 1 ELSE 0)]

\* The calls startCortexResume issues.
CallsOfResume(c, m, k) ==
  [n \in CallNames |->
     c[n] + (CASE n = "addListener" -> IF m.sub = NULL THEN 1 ELSE 0
               [] n = "startCamera" -> 1
               [] n = "startPreview" -> IF Issued(k, 2) THEN 1 ELSE 0
               [] n = "setVideoCapturing(true)" -> IF Issued(k, 3) THEN 1 ELSE 0
               [] n = "setDecoding(true)" -> IF Issued(k, 4) THEN 1 ELSE 0
               [] OTHER -> 0)]

\* ----------------------------------------------------------- the license
\* A guard that never takes the early return.
AlreadyActivated_NoEarlyReturn(flag) == FALSE

\* if (licenseActivatedRef.current) return;   App.tsx:61, part_000:65
AlreadyActivated(flag) == flag

\* A check that lets an absent key through.
MissingKey_NoCheck(key) == FALSE

\* if (!licenseKey) throw ...                 App.tsx:67, part_000:71
MissingKey(key) == key = "none"

\* Outcomes of CDLicense.activateLicense(licenseKey): TRUE resolves.  An
\* invalid key is rejected; a valid key activates unless the call fails.
ActivationOutcomes ==
  IF licenseKey = "invalid" THEN {FALSE}
  ELSE BOOLEAN

\* ensureLicenseActivated up to its await, called from startCortex
\* (App.tsx:60-72, 77; part_000:64-74, 79), for the effect run r (0 on the
\* explicit screen).
ensureLicenseActivated(r) ==
  LET id == ensureCalls + 1 IN
  /\ ensureCalls' = id
  /\ UNCHANGED licenseActivatedRef
  /\ IF AlreadyActivated(licenseActivatedRef)
       THEN /\ pending' = pending \cup {[id |-> id, run |-> r, stage |-> "resume"]}
            /\ UNCHANGED <<credReads, missingKeyErrors, calls, startErrors>>
       ELSE /\ credReads' = credReads + 1
            /\ IF MissingKey(licenseKey)
                 THEN /\ missingKeyErrors' = missingKeyErrors + 1
                      /\ startErrors' = startErrors + 1
                      /\ UNCHANGED <<pending, calls>>
                 ELSE /\ calls' = [calls EXCEPT !["setCustomerId"] = @ + 1,
                                                !["activateLicense"] = @ + 1]
                      /\ pending' = pending \cup
                                      {[id |-> id, run |-> r, stage |-> "activating"]}
                      /\ UNCHANGED <<missingKeyErrors, startErrors>>

NoStart == UNCHANGED <<lic, calls, startErrors>>

\* A microtask is queued: it runs before any other task.
MicrotaskPending == \E p \in pending : p.stage = "resume"

\* ------------------------------------------------------------ the screen
\* if (!androidPermission || !hasPermission) return <blocking message>
PermissionGranted == androidPermission /\ hasPermission

\* The controls of the screen are rendered and can be pressed.
Interactive == phase = "mounted" /\ PermissionGranted /\ ~MicrotaskPending

\* The vision <Camera isActive> is mounted: App.tsx:166-176, part_000:194-207.
VisionMounted ==
  /\ phase = "mounted"
  /\ PermissionGranted
  /\ scannerType = "vision"
  /\ device
  /\ screen = "explicit" => state = "scanning"

Init ==
  /\ screen \in {"live", "explicit"}
  /\ licenseKey \in {"none", "valid", "invalid"}
  /\ device \in BOOLEAN
  /\ phase = "init"
  /\ state = "idle"
  /\ scannerType = "cortex"
  /\ lastResult = ""
  /\ result = ""
  /\ androidPermission \in BOOLEAN    \* Platform.OS !== 'android'
  /\ hasPermission \in BOOLEAN
  /\ permPc = "start"
  /\ subscriptionRef = NULL
  /\ licenseActivatedRef = FALSE
  /\ run = 0
  /\ mountedRun = 0
  /\ listeners = {}
  /\ cameraStarted = FALSE
  /\ previewStarted = FALSE
  /\ videoCapturing = FALSE
  /\ decoding = FALSE
  /\ pending = {}
  /\ calls = [n \in CallNames |-> 0]
  /\ ensureCalls = 0
  /\ credReads = 0
  /\ missingKeyErrors = 0
  /\ startErrors = 0
  /\ lastStop = <<>>
  /\ stopRaised = FALSE
  /\ intents = 0
  /\ faults = 0
  /\ sinceStop = 0
  /\ delivered = NoEvent

\* The permission effect's async function up to its first await:
\* App.tsx:113-124, part_000:122-133.  androidPermission still has its
\* initial value Platform.OS !== 'android' when the effect runs.
PermissionEffect ==
  permPc' = IF ~androidPermission THEN "android"
            ELSE IF ~hasPermission THEN "framework" ELSE "done"

\* One run of the effect on [scannerType], App.tsx:131-143: start() stops
\* all cameras, and 'mounted' is true here; then startCortex for cortex.
\* t is the scannerType of the render the effect belongs to.
SwitchEffect(m, t, f) ==
  LET m1 == stopAllCameras(m, f) IN
  /\ run' = run + 1
  /\ IF ~m1.raised /\ t = "cortex"
       THEN ensureLicenseActivated(run + 1)
       ELSE NoStart

\* The first commit: the effects run in the order of their declaration.
MountEffects ==
  /\ delivered' = NoEvent
  /\ phase = "init"
  /\ phase' = "mounted"
  /\ PermissionEffect
  /\ UNCHANGED <<env, state, scannerType, lastResult, result, androidPermission,
                 hasPermission, intents>>
  /\ IF screen = "live"
       THEN \E f \in StopFaults(Cur) :
              /\ SwitchEffect(Cur, scannerType, f)
              /\ mountedRun' = run + 1
              /\ Apply(stopAllCameras(Cur, f))
       ELSE /\ NoStart
            /\ UNCHANGED <<ctl, run, mountedRun>>

\* PermissionsAndroid.request settles: App.tsx:115-123, part_000:124-132.
\* A state setter of an unmounted component does nothing.
AndroidPermissionSettles(granted) ==
  /\ delivered' = NoEvent
  /\ permPc = "android"
  /\ ~MicrotaskPending
  /\ androidPermission' = IF phase = "mounted" THEN granted ELSE androidPermission
  /\ permPc' = IF ~hasPermission THEN "framework" ELSE "done"
  /\ UNCHANGED <<env, view, hasPermission, ctl, lic, run, mountedRun, calls,
                 startErrors, intents>>

\* requestPermission() of useCameraPermission settles.
FrameworkPermissionSettles(granted) ==
  /\ delivered' = NoEvent
  /\ permPc = "framework"
  /\ ~MicrotaskPending
  /\ hasPermission' = IF phase = "mounted" THEN granted ELSE hasPermission
  /\ permPc' = "done"
  /\ UNCHANGED <<env, view, androidPermission, ctl, lic, run, mountedRun, calls,
                 startErrors, intents>>

\* ------------------------------------------------- the asynchronous start
\* startCortex continues after ensureLicenseActivated returned: a start
\* call that throws rejects the promise of startCortex.
ContinueStart(p) ==
  \E k \in StartFaults(Cur) :
    /\ Apply(startCortexResume(Cur, p.id, k))
    /\ calls' = CallsOfResume(calls, Cur, k)
    /\ startErrors' = startErrors + (IF k # 0 THEN 1 ELSE 0)

\* CDLicense.activateLicense settles for the suspended start p:
\* App.tsx:72-73 then 79-93, part_000:74-75 then 81-97.
ActivationSettles(ok) ==
  /\ delivered' = NoEvent
  /\ ok \in ActivationOutcomes
  /\ ~MicrotaskPending
  /\ \E p \in pending :
       /\ p.stage = "activating"
       /\ pending' = pending \ {p}
       /\ IF ok
            THEN /\ licenseActivatedRef' = TRUE
                 /\ ContinueStart(p)
            ELSE /\ startErrors' = startErrors + 1
                 /\ UNCHANGED <<licenseActivatedRef, ctl, calls>>
  /\ UNCHANGED <<env, view, perm, run, mountedRun, ensureCalls, credReads,
                 missingKeyErrors, intents>>

\* The microtask of a start whose ensureLicenseActivated returned at once.
ResumeStart ==
  /\ delivered' = NoEvent
  /\ \E p \in pending :
       /\ p.stage = "resume"
       /\ pending' = pending \ {p}
       /\ ContinueStart(p)
  /\ UNCHANGED <<env, view, perm, run, mountedRun, licenseActivatedRef, ensureCalls,
                 credReads, missingKeyErrors, intents>>

\* ------------------------------------------------------- the live screen
\* A press of CORTEX or VISION, App.tsx:192-195 and 205-208.  A changed
\* scannerType re-runs the effect on [scannerType] in one commit: the
\* cleanup of the previous run (App.tsx:145-148), then the new run.  An
\* error thrown by the cleanup is not caught by any error boundary: React
\* unmounts the tree at the end of the commit, which runs the cleanup of
\* the new run.
SelectBackend(t) ==
  /\ delivered' = NoEvent
  /\ screen = "live"
  /\ Interactive
  /\ t \in ScannerTypes
  /\ lastResult' = ""
  /\ scannerType' = t
  /\ UNCHANGED <<env, state, result, perm>>
  /\ IF t = scannerType
       THEN /\ NoStart
            /\ UNCHANGED <<phase, ctl, run, mountedRun, intents>>
       ELSE /\ intents < MaxIntents
            /\ intents' = intents + 1
            /\ \E f1 \in StopFaults(Cur) :
                 LET m1 == stopAllCameras(Cur, f1) IN
                 \E f2 \in StopFaults(m1) :
                   LET m2 == stopAllCameras(m1, f2) IN
                   /\ SwitchEffect(m1, t, f2)
                   /\ IF m1.raised
                        THEN \E f3 \in StopFaults(m2) :
                               /\ Apply(stopAllCameras(m2, f3))
                               /\ phase' = "unmounted"
                               /\ mountedRun' = 0
                        ELSE /\ Apply(m2)
                             /\ phase' = phase
                             /\ mountedRun' = run + 1

\* onCodeScanned of the live screen, App.tsx:49-53.
LiveCodeScanned(codes) ==
  /\ delivered' = VisionEvent(codes)
  /\ screen = "live"
  /\ VisionMounted
  /\ ~MicrotaskPending
  /\ lastResult' = IF Len(codes) > 0
                     THEN (IF codes[1] = Undefined THEN "" ELSE codes[1])
                     ELSE lastResult
  /\ UNCHANGED <<env, phase, state, scannerType, result, perm, ctl, lic, run,
                 mountedRun, calls, startErrors, intents>>

\* The SDK delivers a decode batch to an attached listener.
CanDeliver == listeners # {} /\ decoding /\ cameraStarted /\ ~MicrotaskPending

\* A test that takes every batch for a success.
IsSuccess_AnyStatus(batch) == TRUE

\* results?.[0]?.status === CDResult.CDDecodeStatus.success
IsSuccess(batch) == batch.status = "success"

\* The onDecodeResult listener of the live screen, App.tsx:82-86.
LiveDecodeResult(batch) ==
  /\ delivered' = CortexEvent(batch)
  /\ screen = "live"
  /\ CanDeliver
  /\ lastResult' = IF IsSuccess(batch) /\ phase = "mounted"
                     THEN batch.barcodeData ELSE lastResult
  /\ UNCHANGED <<env, phase, state, scannerType, result, perm, ctl, lic, run,
                 mountedRun, calls, startErrors, intents>>

\* --------------------------------------------------- the explicit screen
\* A press of a selector button, part_000:160-168 (rendered when idle).
SelectScannerType(t) ==
  /\ delivered' = NoEvent
  /\ screen = "explicit"
  /\ Interactive
  /\ state = "idle"
  /\ t \in ScannerTypes
  /\ scannerType' = t
  /\ NoStart
  /\ UNCHANGED <<env, phase, state, lastResult, result, perm, ctl, run, mountedRun,
                 intents>>

\* A press of 'Ler QR Code', part_000:178-185.
PressStart ==
  /\ delivered' = NoEvent
  /\ screen = "explicit"
  /\ Interactive
  /\ state = "idle"
  /\ intents < MaxIntents
  /\ intents' = intents + 1
  /\ result' = ""
  /\ state' = "scanning"
  /\ IF scannerType = "cortex" THEN ensureLicenseActivated(0) ELSE NoStart
  /\ UNCHANGED <<env, phase, scannerType, lastResult, perm, ctl, run, mountedRun>>

\* A press of the close button, part_000:211-214.  An error thrown by
\* stopAll leaves the handler before setState('idle').
PressCancel ==
  /\ delivered' = NoEvent
  /\ screen = "explicit"
  /\ Interactive
  /\ state = "scanning"
  /\ \E f \in StopFaults(Cur) :
       LET m1 == stopAll(Cur, f) IN
       /\ Apply(m1)
       /\ state' = IF m1.raised THEN state ELSE "idle"
  /\ NoStart
  /\ UNCHANGED <<env, phase, scannerType, lastResult, result, perm, run, mountedRun,
                 intents>>

\* A press of 'Ler outro QR', part_000:233.
PressReset ==
  /\ delivered' = NoEvent
  /\ screen = "explicit"
  /\ Interactive
  /\ state = "result"
  /\ state' = "idle"
  /\ NoStart
  /\ UNCHANGED <<env, phase, scannerType, lastResult, result, perm, ctl, run,
                 mountedRun, intents>>

\* onCodeScanned of the explicit screen, part_000:49-54.
ExplicitCodeScanned(codes) ==
  /\ delivered' = VisionEvent(codes)
  /\ screen = "explicit"
  /\ VisionMounted
  /\ ~MicrotaskPending
  /\ IF Len(codes) > 0 /\ codes[1] \notin {Undefined, ""}
       THEN result' = codes[1] /\ state' = "result"
       ELSE UNCHANGED <<result, state>>
  /\ NoStart
  /\ UNCHANGED <<env, phase, scannerType, lastResult, perm, ctl, run, mountedRun,
                 intents>>

\* The onDecodeResult listener of the explicit screen, part_000:84-90.
ExplicitDecodeResult(batch) ==
  /\ delivered' = CortexEvent(batch)
  /\ screen = "explicit"
  /\ CanDeliver
  /\ IF IsSuccess(batch)
       THEN \E f \in StopFaults(Cur) :
              LET m1 == stopAll(Cur, f) IN
              /\ Apply(m1)
              /\ result' = IF phase = "mounted" THEN batch.barcodeData ELSE result
              /\ state' = IF phase = "mounted" /\ ~m1.raised THEN "result" ELSE state
       ELSE UNCHANGED <<ctl, result, state>>
  /\ NoStart
  /\ UNCHANGED <<env, phase, scannerType, lastResult, perm, run, mountedRun, intents>>

\* ------------------------------------------------------------ the unmount
\* The screen unmounts: the cleanup of the effect on [scannerType]
\* (App.tsx:145-148) or of the mount effect (part_000:135).
Unmount ==
  /\ delivered' = NoEvent
  /\ phase = "mounted"
  /\ ~MicrotaskPending
  /\ phase' = "unmounted"
  /\ mountedRun' = 0
  /\ \E f \in StopFaults(Cur) :
       Apply(IF screen = "live" THEN stopAllCameras(Cur, f) ELSE stopAll(Cur, f))
  /\ NoStart
  /\ UNCHANGED <<env, state, scannerType, lastResult, result, perm, run, intents>>

\* ---------------------------------------------------------------- inputs
\* Batches by their first element: none, a failure (one barcodeData is
\* enough, the listeners read it on success only), a success with each text.
Batches ==
  {[status |-> "none", barcodeData |-> ""], [status |-> "failure", barcodeData |-> "A"]}
    \cup [status : {"success"}, barcodeData : Texts]

Codes == {<<>>} \cup {<<v>> : v \in Texts \cup {Undefined}}

Next ==
  \/ MountEffects
  \/ \E g \in BOOLEAN : AndroidPermissionSettles(g)
  \/ \E g \in BOOLEAN : FrameworkPermissionSettles(g)
  \/ \E ok \in BOOLEAN : ActivationSettles(ok)
  \/ ResumeStart
  \/ \E t \in ScannerTypes : SelectBackend(t)
  \/ \E c \in Codes : LiveCodeScanned(c)
  \/ \E b \in Batches : LiveDecodeResult(b)
  \/ \E t \in ScannerTypes : SelectScannerType(t)
  \/ PressStart
  \/ PressCancel
  \/ PressReset
  \/ \E c \in Codes : ExplicitCodeScanned(c)
  \/ \E b \in Batches : ExplicitDecodeResult(b)
  \/ Unmount

Spec == Init /\ [][Next]_vars

\* The live screen with a valid license key.
LiveInit ==
  /\ Init
  /\ screen = "live"
  /\ licenseKey = "valid"

LiveNext ==
  \/ MountEffects
  \/ \E g \in BOOLEAN : AndroidPermissionSettles(g)
  \/ \E g \in BOOLEAN : FrameworkPermissionSettles(g)
  \/ \E ok \in BOOLEAN : ActivationSettles(ok)
  \/ ResumeStart
  \/ \E t \in ScannerTypes : SelectBackend(t)
  \/ \E c \in Codes : LiveCodeScanned(c)
  \/ \E b \in Batches : LiveDecodeResult(b)
  \/ Unmount

\* React runs the effects of a commit, a queued microtask runs, and a
\* pending CDLicense.activateLicense settles.
LiveFairSpec ==
  /\ LiveInit
  /\ [][LiveNext]_vars
  /\ WF_vars(MountEffects)
  /\ WF_vars(ResumeStart)
  /\ WF_vars(\E ok \in BOOLEAN : ActivationSettles(ok))

TypeOK ==
  /\ phase \in {"init", "mounted", "unmounted"}
  /\ state \in {"idle", "scanning", "result"}
  /\ scannerType \in ScannerTypes
  /\ lastResult \in Texts
  /\ result \in Texts
  /\ subscriptionRef \in 0..(MaxIntents + 1)
  /\ listeners \subseteq 1..(MaxIntents + 1)
  /\ faults \in 0..MaxFaults
  /\ intents \in 0..MaxIntents
  /\ ensureCalls <= MaxIntents + 1
  /\ sinceStop \in 0..(MaxIntents + 1)
  /\ delivered.src \in {"none", "cortex", "vision"}

\* ================================================================ claims
\* The SDK engine is active: camera started, decoding enabled or a decode
\* listener attached.
CortexActive == cameraStarted \/ decoding \/ listeners # {}

\* C1: on the live screen at most one backend is active in every reachable
\* state: the SDK engine is never active while the vision Camera is
\* mounted.  Stated for the runs in which no native call threw.
C1_MutualExclusion ==
  (screen = "live" /\ faults = 0) => ~(CortexActive /\ VisionMounted)

\* C2: on the live screen a start that settles after its effect run was
\* cleaned up (its 'mounted' flag is false) is discarded: it adds no
\* listener, issues no start call and changes no controller state.
C2_StaleStartDiscarded ==
  [][(screen = "live" /\ \E p \in pending \ pending' : p.run # mountedRun)
       => UNCHANGED <<subscriptionRef, listeners, cameraStarted, previewStarted,
                      videoCapturing, decoding, calls>>]_vars

\* C3: with valid credentials CDLicense.activateLicense is called at most
\* once in total, however many ensureLicenseActivated invocations there
\* are and however they overlap.  Stated for the runs in which no start
\* has failed.
C3_SingleActivation ==
  (licenseKey = "valid" /\ startErrors = 0) => calls["activateLicense"] <= 1

\* C4: once licenseActivatedRef is true it stays true, and every later
\* ensureLicenseActivated call returns at once with success: it reads no
\* credentials and calls neither setCustomerId nor activateLicense.
C4_ActivatedIsNoOp ==
  [][licenseActivatedRef =>
       /\ licenseActivatedRef'
       /\ credReads' = credReads
       /\ calls'["setCustomerId"] = calls["setCustomerId"]
       /\ calls'["activateLicense"] = calls["activateLicense"]
       /\ missingKeyErrors' = missingKeyErrors
       /\ ensureCalls' # ensureCalls =>
            /\ startErrors' = startErrors
            /\ \E p \in pending' \ pending :
                 p.id = ensureCalls' /\ p.stage = "resume"]_vars

\* C4 witness: the flag is true and an invocation has returned before
\* reading the credentials.
C4_Witness == licenseActivatedRef /\ ensureCalls > credReads

\* C5: with the license key absent every startCortex fails with the
\* missing-key error, none of activateLicense, addListener, startCamera,
\* startPreview, setVideoCapturing(true), setDecoding(true) is ever called
\* and the activation flag stays false.
C5_MissingKeyStartsNothing ==
  licenseKey = "none" =>
    /\ missingKeyErrors = ensureCalls
    /\ startErrors = ensureCalls
    /\ pending = {}
    /\ \A n \in CallNames \ {"setCustomerId"} : calls[n] = 0
    /\ ~licenseActivatedRef
    /\ ~CortexActive

\* C5 witness: the key is absent and two starts have been attempted.
C5_Witness == licenseKey = "none" /\ ensureCalls >= 2

\* C6: while camera permission is not granted no start is issued to
\* either backend: no startCamera, no license activation, and the vision
\* Camera is not mounted.
C6_NoStartWithoutPermission ==
  ~PermissionGranted =>
    /\ calls["startCamera"] = 0
    /\ calls["activateLicense"] = 0
    /\ ~VisionMounted

\* A step in which activateLicense rejects for a suspended start.
ActivationRejected ==
  \E p \in pending \ pending' :
    p.stage = "activating" /\ calls'["startCamera"] = calls["startCamera"]

\* C7: when activateLicense fails during a start, the start rejects, the
\* activation flag is false afterwards, and that start adds no listener
\* and issues no start call.
C7_FailedActivationLeavesFlagFalse ==
  [][ActivationRejected =>
       /\ startErrors' = startErrors + 1
       /\ ~licenseActivatedRef'
       /\ UNCHANGED <<listeners, subscriptionRef, calls>>]_vars

\* C8: the stop routine never raises, whichever call fails inside it.
C8_StopNeverRaises == ~stopRaised

\* C9: every call of the stop routine issues setDecoding(false),
\* setVideoCapturing(false), stopPreview, stopCamera, in that order, also
\* when one of them fails.
C9_StopIssuesAllFour == lastStop # <<>> => lastStop = TeardownOrder

\* C10: after the screen unmounted no decode listener is subscribed and
\* the SDK camera is not running.  Stated for the runs in which no native
\* call threw.
C10_NothingLiveAfterUnmount ==
  (phase = "unmounted" /\ faults = 0) =>
    /\ listeners = {}
    /\ subscriptionRef = NULL
    /\ ~cameraStarted

\* The SDK flags, the listeners and the handle.
backend == <<subscriptionRef, listeners, cameraStarted, previewStarted,
             videoCapturing, decoding>>

\* C11: a decode batch whose first element is not a success, or that is
\* empty or absent, changes neither the displayed result nor the session
\* state nor any backend resource, on both screens.
C11_NonSuccessBatchIgnored ==
  [][(delivered'.src = "cortex" /\ delivered'.status # "success")
       => UNCHANGED <<lastResult, result, state, scannerType, phase, backend,
                      lic, calls, lastStop, sinceStop>>]_vars

\* C11 witness: a failure batch was delivered to the attached listener
\* while the SDK engine was running.
C11_Witness ==
  delivered.src = "cortex" /\ delivered.status = "failure" /\ CortexActive

\* A decode event without text: a success with empty barcodeData, or a
\* first code whose value is empty or absent.
EmptyText(e) ==
  \/ e.src = "cortex" /\ e.status = "success" /\ e.text = ""
  \/ e.src = "vision" /\ e.status = "code" /\ e.text \in {"", Undefined}

\* C12: a decode event without text changes neither the displayed result
\* nor the session state, on both screens and for both backends.
C12_EmptyTextIgnored ==
  [][EmptyText(delivered') => UNCHANGED <<lastResult, result, state>>]_vars

\* C13: on the explicit screen every change of state is idle->scanning,
\* scanning->result, result->idle or scanning->idle.  Stated for the runs
\* in which no native call threw.
C13_OnlyListedTransitions ==
  [][(screen = "explicit" /\ faults' = 0 /\ state' # state)
       => <<state, state'>> \in {<<"idle", "scanning">>, <<"scanning", "result">>,
                                 <<"result", "idle">>, <<"scanning", "idle">>}]_vars

\* C14: on the explicit screen, once a decode has set a result and the
\* session is in result, no decode event changes the displayed result.  Stated for the runs in which no
\* native call threw.
C14_OneSuccessPerSession ==
  [][(screen = "explicit" /\ faults' = 0 /\ state = "result" /\ result # ""
        /\ delivered' # NoEvent)
       => result' = result]_vars

\* C15: on the explicit screen no backend is active while the state is
\* idle or result.  Stated for the runs in which no native call threw.
C15_IdleAndResultAreQuiet ==
  (screen = "explicit" /\ faults = 0 /\ state \in {"idle", "result"})
    => ~CortexActive /\ ~VisionMounted

\* C16: on the live screen a switch from cortex to vision leaves the SDK
\* engine stopped, and no SDK decode event delivered after the switch
\* changes the displayed result.  Stated for the runs in which no native
\* call threw.
C16_SwitchSilencesCortex ==
  [][(screen = "live" /\ faults' = 0) =>
       /\ (scannerType = "cortex" /\ scannerType' = "vision") => ~CortexActive'
       /\ (scannerType = "vision" /\ delivered'.src = "cortex")
            => lastResult' = lastResult]_vars

\* The latest step delivered a successful decode of the selected backend.
SuccessOfSelected ==
  \/ delivered.src = "cortex" /\ delivered.status = "success" /\ scannerType = "cortex"
  \/ delivered.src = "vision" /\ delivered.status = "code" /\ scannerType = "vision"

\* C17: on the live screen the displayed result changes only in a step
\* that delivers a successful decode of the selected backend or that
\* changes the selected backend.
C17_ResultChangesOnlyOnDecodeOrSwitch ==
  [][(screen = "live" /\ faults' = 0 /\ lastResult' # lastResult)
       => (scannerType' # scannerType \/ SuccessOfSelected')]_vars

\* C18: the SDK start sequence is never issued twice without a call of
\* the stop routine in between.  Stated for the runs in which no native
\* call threw.
C18_NoDoubleStart == faults = 0 => sinceStop <= 1

\* C19: at most one decode listener is subscribed, and when one is, the
\* subscription handle refers to it.
C19_OneListenerOwnedByHandle ==
  /\ Cardinality(listeners) <= 1
  /\ listeners # {} => listeners = {subscriptionRef}

\* C19 witness: two start sequences ran without a stop in between and one
\* listener is subscribed, the one the handle refers to.
C19_Witness ==
  sinceStop = 2 /\ calls["addListener"] = 1 /\ listeners = {subscriptionRef}

\* The decode listener is subscribed and camera, preview, capture and
\* decoding are started.
FullyStarted ==
  /\ subscriptionRef # NULL
  /\ listeners = {subscriptionRef}
  /\ cameraStarted
  /\ previewStarted
  /\ videoCapturing
  /\ decoding

\* C20: on the live screen with a license key present, if from some point
\* on cortex stays selected and the screen stays mounted, and no start
\* fails (activateLicense resolves, no start call throws), then eventually
\* the listener is subscribed and camera, preview, capture and decoding
\* are started, and stay so.
C20_CortexEventuallyStarted ==
  (<>[](phase = "mounted" /\ scannerType = "cortex") /\ [](startErrors = 0))
    => <>[]FullyStarted

\* C20 witness: cortex was selected again after a switch, every pending
\* activation has settled and the SDK engine is fully started.
C20_Witness ==
  /\ screen = "live"
  /\ phase = "mounted"
  /\ scannerType = "cortex"
  /\ run >= 3
  /\ pending = {}
  /\ faults = 0
  /\ FullyStarted

====
